---- MODULE Spec2Model ----
(***************************************************************************)
(* Shape-scaling analogy task generator (src/src/generator.py).            *)
(*                                                                         *)
(* Three specifications share the variables below:                         *)
(*   Spec        the combination allocator (_generate_task_data)           *)
(*   SpecBounds  the layout/bounds calculator and the clamped draw         *)
(*   SpecAnim    the transformation animator                               *)
(* Scale factors are kept in hundredths (0.35 is 35, 2.2 is 220).          *)
(***************************************************************************)
EXTENDS Integers, Sequences, FiniteSets, TLC

VARIABLES
    base_shapes,            \* self.base_shapes
    scale_factors,          \* self.scale_factors (hundredths)
    generated_combinations, \* self.generated_combinations
    task_data,              \* value returned by the last _generate_task_data call
    raised,                 \* exception that left the last call, or "none"
    branch,                 \* path the last call took through _generate_task_data
    attempts,               \* random draws made by the last call
    warnings,               \* number of exhaustion warnings printed so far
    calls,                  \* number of _generate_task_data calls made
    returned_keys,          \* history: the set of keys returned so far
    config,                 \* self.config: image_size, margin, shape_size, arrow_length
    position,               \* anchor (x, y) handed to the bounds calculator / draw call
    geom_pc,                \* "idle", "sized", "probed" or "drawn"
    max_allowed_size,       \* last result of _get_max_shape_size_for_position
    probe,                  \* a second evaluation one unit nearer to some canvas edge
    draw_call,              \* the shape, label and size of the last transformed draw
    canvas,                 \* draw operations issued on the ImageDraw surface, in order
    anim_pc,                \* next step of the render-and-animate sequence
    hold_frames,            \* hold_frames argument of _create_transformation_frames
    scale_frames,           \* scale_frames argument of _create_transformation_frames
    first_image,            \* canvas returned by _render_initial_state
    final_image,            \* canvas returned by _render_final_state
    frames,                 \* list returned by _create_transformation_frames
    morph_sizes,            \* current_size of each morph frame, in order
    frame_objects,          \* identity of the Image object behind each frame
    morph_target,           \* target_size of _create_scaling_morph_frames, clamped
    generate_videos,        \* self.config.generate_videos
    cv2_available,          \* CV2_AVAILABLE of core/video_utils.py
    video_generator,        \* self.video_generator: "None" or "VideoGenerator"
    pair_pc,                \* next step of the constructor / generate_task_pair
    pair_raised,            \* exception that left the constructor or the call
    steps,                  \* steps of the current generate_task_pair call, in order
    random_calls,           \* calls of the random module made by the current call,
                            \* as runs: the calls of one iteration and how often
    video_path,             \* video_path of generate_task_pair
    prompt,                 \* prompt of generate_task_pair
    task_pair,              \* the TaskPair returned by the last call
    encoder                 \* input and effects of create_video_from_frames

allocVars == <<base_shapes, scale_factors, generated_combinations, task_data,
               raised, branch, attempts, warnings, calls, returned_keys>>

geomVars == <<config, position, geom_pc, max_allowed_size, probe, draw_call, canvas>>

animVars == <<anim_pc, hold_frames, scale_frames, first_image, final_image,
              frames, morph_sizes, frame_objects, morph_target>>

pairVars == <<generate_videos, cv2_available, video_generator, pair_pc, pair_raised,
              steps, random_calls, video_path, prompt, task_pair, encoder>>

vars == <<allocVars, geomVars, animVars, pairVars>>

----------------------------------------------------------------------------
(* Program constants                                                       *)

BaseShapes ==
    <<"square", "triangle", "circle", "diamond", "pentagon", "hexagon",
      "rectangle", "oval", "star", "heart", "cross", "arrow", "trapezoid",
      "rhombus", "octagon", "crescent", "plus", "minus", "L_shape", "T_shape">>

ScaleFactors ==
    <<35, 40, 45, 50, 55, 60, 65, 70, 75, 80, 85, 90, 95,
      105, 110, 115, 120, 125, 130, 135, 140, 145, 150, 155, 160, 165, 170,
      175, 180, 185, 190, 195, 200, 210, 220>>

max_attempts == 1000

----------------------------------------------------------------------------
(* Bounds of the allocator model                                           *)

\* largest key domain |shapes| * (|shapes| - 1) * |scale_factors| explored
MaxDomain == 8
\* calls explored after the key domain is exhausted
ExtraCalls == 2

Range(s) == {s[i] : i \in 1..Len(s)}

NoTask == [transformation_type |-> "none"]

----------------------------------------------------------------------------
(* Combination allocator                                                   *)

MaxUniqueCombinations(shapes, scales) ==
    Len(shapes) * (Len(shapes) - 1) * Len(scales)

\* random.sample(population, 2): two positions drawn without replacement
RandomSample2_WithReplacement(population) ==
    {<<population[i], population[j]>> : i \in 1..Len(population), j \in 1..Len(population)}

RandomSample2(population) ==
    {<<population[q[1]], population[q[2]]>> :
        q \in {r \in (1..Len(population)) \X (1..Len(population)) : r[1] # r[2]}}

\* random.choice(seq)
RandomChoice(s) == Range(s)

\* one iteration's draw: (shape_a, shape_c) then scale_factor
RandomDraws(shapes, scales) ==
    {<<p[1], p[2], f>> : p \in RandomSample2(shapes), f \in RandomChoice(scales)}

Collides_Never(combination_key, used) == FALSE

\* "combination_key not in self.generated_combinations", negated
Collides(combination_key, used) == combination_key \in used

ScaleDescription(scale_factor) ==
    IF scale_factor < 100 THEN "smaller" ELSE "larger"

\* the task with shape_b and shape_d taken from the other pair
GenerateScalingTask_CrossedPairs(shape_a, shape_c, scale_factor) ==
    [transformation_type |-> "scaling",
     shape_a |-> shape_a,
     shape_b |-> shape_c,
     shape_c |-> shape_c,
     shape_d |-> shape_a,
     scale_factor |-> scale_factor,
     description |-> <<shape_a, "becomes", ScaleDescription(scale_factor), shape_a,
                       shape_c, "becomes", ScaleDescription(scale_factor), shape_c>>]

GenerateScalingTask(shape_a, shape_c, scale_factor) ==
    [transformation_type |-> "scaling",
     shape_a |-> shape_a,
     shape_b |-> shape_a,
     shape_c |-> shape_c,
     shape_d |-> shape_c,
     scale_factor |-> scale_factor,
     description |-> <<shape_a, "becomes", ScaleDescription(scale_factor), shape_a,
                       shape_c, "becomes", ScaleDescription(scale_factor), shape_c>>]

CombinationKey(td) == <<td.shape_a, td.shape_c, td.scale_factor>>

\* the three nested for loops of _generate_systematic_unique_combination,
\* resumed at positions (ia, ic, isf) of the two lists
RECURSIVE SystematicScan(_, _, _, _, _, _)
SystematicScan(shapes, scales, used, ia, ic, isf) ==
    IF ia > Len(shapes) THEN [found |-> FALSE]
    ELSE IF ic > Len(shapes) THEN SystematicScan(shapes, scales, used, ia + 1, 1, 1)
    ELSE IF shapes[ia] = shapes[ic] THEN SystematicScan(shapes, scales, used, ia, ic + 1, 1)
    ELSE IF isf > Len(scales) THEN SystematicScan(shapes, scales, used, ia, ic + 1, 1)
    ELSE IF <<shapes[ia], shapes[ic], scales[isf]>> \notin used
         THEN [found |-> TRUE, key |-> <<shapes[ia], shapes[ic], scales[isf]>>]
         ELSE SystematicScan(shapes, scales, used, ia, ic, isf + 1)

\* the same scan with the scale-factor loop outermost
RECURSIVE ScaleOuterScan(_, _, _, _, _, _)
ScaleOuterScan(shapes, scales, used, isf, ia, ic) ==
    IF isf > Len(scales) THEN [found |-> FALSE]
    ELSE IF ia > Len(shapes) THEN ScaleOuterScan(shapes, scales, used, isf + 1, 1, 1)
    ELSE IF ic > Len(shapes) THEN ScaleOuterScan(shapes, scales, used, isf, ia + 1, 1)
    ELSE IF shapes[ia] # shapes[ic] /\ <<shapes[ia], shapes[ic], scales[isf]>> \notin used
         THEN [found |-> TRUE, key |-> <<shapes[ia], shapes[ic], scales[isf]>>]
         ELSE ScaleOuterScan(shapes, scales, used, isf, ia, ic + 1)

SystematicUniqueCombination_ScaleOuter(shapes, scales, used) ==
    ScaleOuterScan(shapes, scales, used, 1, 1, 1)

SystematicUniqueCombination(shapes, scales, used) ==
    SystematicScan(shapes, scales, used, 1, 1, 1)

\* numbers of draws a call is observed to make: the first, the second, the last
AttemptCounts == {1, 2, max_attempts}

\* prefixes of the built-in lists whose key domain has at most MaxDomain keys
AllocatorConfigs ==
    {c \in [n : 2..Len(BaseShapes), k : 1..Len(ScaleFactors)] :
        c.n * (c.n - 1) * c.k <= MaxDomain}

AllocInit ==
    /\ \E c \in AllocatorConfigs :
          /\ base_shapes = SubSeq(BaseShapes, 1, c.n)
          /\ scale_factors = SubSeq(ScaleFactors, 1, c.k)
    /\ generated_combinations = {}
    /\ task_data = NoTask
    /\ raised = "none"
    /\ branch = "none"
    /\ attempts = 0
    /\ warnings = 0
    /\ calls = 0
    /\ returned_keys = {}

AllocIdle ==
    /\ base_shapes = BaseShapes
    /\ scale_factors = ScaleFactors
    /\ generated_combinations = {}
    /\ task_data = NoTask
    /\ raised = "none"
    /\ branch = "none"
    /\ attempts = 0
    /\ warnings = 0
    /\ calls = 0
    /\ returned_keys = {}

CallAllowed ==
    /\ raised = "none"
    /\ calls < MaxUniqueCombinations(base_shapes, scale_factors) + ExtraCalls

Return(td) ==
    /\ task_data' = td
    /\ raised' = "none"
    /\ calls' = calls + 1
    /\ returned_keys' = returned_keys \cup {CombinationKey(td)}

\* lines 99-112: attempt number n draws an unused key; the n - 1 draws
\* before it all collided
UniqueRandomDrawStep ==
    /\ CallAllowed
    /\ Cardinality(generated_combinations)
           < MaxUniqueCombinations(base_shapes, scale_factors)
    /\ \E n \in AttemptCounts, key \in RandomDraws(base_shapes, scale_factors) :
          /\ n <= max_attempts
          /\ n > 1 => \E d \in RandomDraws(base_shapes, scale_factors) :
                         Collides(d, generated_combinations)
          /\ ~Collides(key, generated_combinations)
          /\ generated_combinations' = generated_combinations \cup {key}
          /\ attempts' = n
          /\ branch' = "random"
          /\ Return(GenerateScalingTask(key[1], key[2], key[3]))
    /\ UNCHANGED <<base_shapes, scale_factors, warnings>>

UniqueRandomDraw == UniqueRandomDrawStep /\ UNCHANGED <<geomVars, animVars, pairVars>>

\* the fallback returning its key without adding it to the set
SystematicFallback_NotRecording ==
    /\ CallAllowed
    /\ Cardinality(generated_combinations)
           < MaxUniqueCombinations(base_shapes, scale_factors)
    /\ \E d \in RandomDraws(base_shapes, scale_factors) :
          Collides(d, generated_combinations)
    /\ attempts' = max_attempts
    /\ branch' = "systematic"
    /\ LET r == SystematicUniqueCombination(base_shapes, scale_factors,
                                            generated_combinations)
       IN  /\ r.found
           /\ Return(GenerateScalingTask(r.key[1], r.key[2], r.key[3]))
    /\ UNCHANGED <<base_shapes, scale_factors, generated_combinations, warnings,
                   geomVars, animVars, pairVars>>

\* lines 99-116 and 126-140: all max_attempts draws collided
SystematicFallbackStep ==
    /\ CallAllowed
    /\ Cardinality(generated_combinations)
           < MaxUniqueCombinations(base_shapes, scale_factors)
    /\ \E d \in RandomDraws(base_shapes, scale_factors) :
          Collides(d, generated_combinations)
    /\ attempts' = max_attempts
    /\ branch' = "systematic"
    /\ LET r == SystematicUniqueCombination(base_shapes, scale_factors,
                                            generated_combinations)
       IN  IF r.found
           THEN /\ generated_combinations' = generated_combinations \cup {r.key}
                /\ Return(GenerateScalingTask(r.key[1], r.key[2], r.key[3]))
           ELSE /\ raised' = "RuntimeError"
                /\ calls' = calls + 1
                /\ UNCHANGED <<generated_combinations, task_data, returned_keys>>
    /\ UNCHANGED <<base_shapes, scale_factors, warnings>>

SystematicFallback == SystematicFallbackStep /\ UNCHANGED <<geomVars, animVars, pairVars>>

\* lines 118-124: the key domain is used up
ReplacementDrawStep ==
    /\ CallAllowed
    /\ ~(Cardinality(generated_combinations)
           < MaxUniqueCombinations(base_shapes, scale_factors))
    /\ warnings' = IF Cardinality(generated_combinations)
                        = MaxUniqueCombinations(base_shapes, scale_factors)
                   THEN warnings + 1 ELSE warnings
    /\ \E p \in RandomSample2(base_shapes), f \in RandomChoice(scale_factors) :
          Return(GenerateScalingTask(p[1], p[2], f))
    /\ attempts' = 1
    /\ branch' = "replacement"
    /\ UNCHANGED <<base_shapes, scale_factors, generated_combinations>>

ReplacementDraw == ReplacementDrawStep /\ UNCHANGED <<geomVars, animVars, pairVars>>

GenerateTaskData == UniqueRandomDraw \/ SystematicFallback \/ ReplacementDraw

----------------------------------------------------------------------------
(* Layout/bounds calculator                                                *)

safety_margin == 10

min_radius == 20

Min2(a, b) == IF a <= b THEN a ELSE b

Max2(a, b) == IF a >= b THEN a ELSE b

\* the calculator without the safety inset
GetMaxShapeSizeForPosition_NoInset(cfg, x, y) ==
    LET max_radius == Min2(Min2(x - cfg.margin, cfg.image_size[1] - x - cfg.margin),
                           Min2(y - cfg.margin, cfg.image_size[2] - y - cfg.margin))
    IN  Max2(max_radius, min_radius) * 2

\* the calculator without the minimum radius
GetMaxShapeSizeForPosition_NoFloor(cfg, x, y) ==
    LET max_radius == Min2(Min2(x - cfg.margin, cfg.image_size[1] - x - cfg.margin),
                           Min2(y - cfg.margin, cfg.image_size[2] - y - cfg.margin))
    IN  (max_radius - safety_margin) * 2

\* the calculator taking the farthest edge instead of the nearest
GetMaxShapeSizeForPosition_Farthest(cfg, x, y) ==
    LET max_radius == Max2(Max2(x - cfg.margin, cfg.image_size[1] - x - cfg.margin),
                           Max2(y - cfg.margin, cfg.image_size[2] - y - cfg.margin))
    IN  Max2(max_radius - safety_margin, min_radius) * 2

GetMaxShapeSizeForPosition(cfg, x, y) ==
    LET width == cfg.image_size[1]
        height == cfg.image_size[2]
        margin == cfg.margin
        space_left == x - margin
        space_right == width - x - margin
        space_top == y - margin
        space_bottom == height - y - margin
        max_radius == Min2(Min2(space_left, space_right), Min2(space_top, space_bottom))
        floored == Max2(max_radius - safety_margin, min_radius)
    IN  floored * 2

----------------------------------------------------------------------------
(* Floating-point helpers                                                  *)

\* int(n * c/100) on IEEE doubles is floor(n * c / 100) except where the
\* double product falls just below the exact integer.  The pairs below are
\* all such cases for n in 0..256 with c a built-in scale factor, and for
\* n in 0..599 with c in {20, 30, 40, 70, 140} (computed with CPython).
FloatTruncBelow ==
    {<<45, 140>>, <<85, 140>>, <<90, 70>>, <<90, 140>>, <<100, 115>>,
     <<165, 140>>, <<170, 70>>, <<170, 140>>, <<175, 140>>, <<180, 35>>,
     <<180, 70>>, <<180, 115>>, <<180, 140>>, <<200, 115>>, <<220, 115>>,
     <<325, 140>>, <<330, 140>>, <<335, 140>>, <<340, 140>>, <<345, 140>>,
     <<350, 140>>, <<355, 140>>, <<360, 140>>, <<365, 140>>,
     <<330, 70>>, <<340, 70>>, <<350, 70>>, <<360, 70>>}

\* round(n * c/100): the nearest integer, a tie going to the even neighbour.
\* On IEEE doubles this is what round() returns for n in {30, 33, 40, 80}
\* and every built-in scale factor c (computed with CPython).
RoundMul(n, c) ==
    LET q == (n * c) \div 100
        r == (n * c) % 100
    IN  IF r > 50 \/ (r = 50 /\ q % 2 = 1) THEN q + 1 ELSE q

TruncMul(n, c) ==
    (n * c) \div 100 - (IF <<n, c>> \in FloatTruncBelow THEN 1 ELSE 0)

\* cos and sin of the angles the renderer uses, in thousandths
Cos1000 ==
    0 :> 1000 @@ 18 :> 951 @@ 30 :> 866 @@ 45 :> 707 @@ 54 :> 588 @@ 60 :> 500 @@ 90 :> 0
    @@ 120 :> -500 @@ 126 :> -588 @@ 135 :> -707 @@ 162 :> -951 @@ 180 :> -1000
    @@ 198 :> -951 @@ 225 :> -707 @@ 234 :> -588 @@ 240 :> -500 @@ 270 :> 0
    @@ 300 :> 500 @@ 306 :> 588 @@ 315 :> 707 @@ 342 :> 951
    @@ 150 :> -866 @@ 210 :> -866 @@ 330 :> 866

Sin1000 ==
    0 :> 0 @@ 18 :> 309 @@ 30 :> 500 @@ 45 :> 707 @@ 54 :> 809 @@ 60 :> 866 @@ 90 :> 1000
    @@ 120 :> 866 @@ 126 :> 809 @@ 135 :> 707 @@ 162 :> 309 @@ 180 :> 0
    @@ 198 :> -309 @@ 225 :> -707 @@ 234 :> -809 @@ 240 :> -866 @@ 270 :> -1000
    @@ 300 :> -866 @@ 306 :> -809 @@ 315 :> -707 @@ 342 :> -309
    @@ 150 :> 500 @@ 210 :> -500 @@ 330 :> -500

----------------------------------------------------------------------------
(* Shape geometry renderer.  Coordinates are in millionths of a pixel.     *)

U(c) == c * 1000000

Pt(x, y) == <<U(x), U(y)>>

\* (x + r*cos(deg), y + r*sin(deg)) for a radius of r1000 thousandths
Polar(x, y, r1000, deg) ==
    <<U(x) + r1000 * Cos1000[deg % 360], U(y) + r1000 * Sin1000[deg % 360]>>

Rectangle(x1, y1, x2, y2, fill, outline, width) ==
    [prim |-> "rectangle", pts |-> <<Pt(x1, y1), Pt(x2, y2)>>,
     fill |-> fill, outline |-> outline, width |-> width, angles |-> <<>>]

Ellipse(x1, y1, x2, y2, fill, outline, width) ==
    [prim |-> "ellipse", pts |-> <<Pt(x1, y1), Pt(x2, y2)>>,
     fill |-> fill, outline |-> outline, width |-> width, angles |-> <<>>]

Polygon(points, fill, outline, width) ==
    [prim |-> "polygon", pts |-> points,
     fill |-> fill, outline |-> outline, width |-> width, angles |-> <<>>]

Line(x1, y1, x2, y2, fill, width) ==
    [prim |-> "line", pts |-> <<Pt(x1, y1), Pt(x2, y2)>>,
     fill |-> fill, outline |-> "none", width |-> width, angles |-> <<>>]

Text(x, y, fill) ==
    [prim |-> "text", pts |-> <<Pt(x, y)>>,
     fill |-> fill, outline |-> "none", width |-> 0, angles |-> <<>>]

\* every regular polygon started from the top, whatever offset its branch gives
RegularPolygon_FromTop(x, y, half_size, n, offset) ==
    Polygon([i \in 1..n |-> Polar(x, y, half_size * 1000, (i - 1) * (360 \div n) + 270)],
            "color", "black", 2)

\* lines 296-302, 305-311 and 424-430: n vertices at radius half_size, vertex
\* i at angle i * 2 * pi / n plus the offset of the branch (degrees)
RegularPolygon(x, y, half_size, n, offset) ==
    Polygon([i \in 1..n |-> Polar(x, y, half_size * 1000, (i - 1) * (360 \div n) + offset)],
            "color", "black", 2)

StarSegment(x, y, half_size, i) ==
    Polygon(<<Polar(x, y, half_size * 1000, i * 72 + 270),
              Polar(x, y, half_size * 400, (i * 2 + 1) * 36 + 270),
              Polar(x, y, half_size * 400, (i * 2 - 1) * 36 + 270)>>,
            "color", "black", 2)

HeartOps(x, y, half_size) ==
    LET circle_radius == TruncMul(half_size, 40)
        left_center_x == x - TruncMul(half_size, 30)
        right_center_x == x + TruncMul(half_size, 30)
        circle_center_y == y - TruncMul(half_size, 20)
        triangle_points ==
            <<Pt(x, y + half_size),
              Pt(left_center_x - circle_radius \div 2, circle_center_y),
              Pt(right_center_x + circle_radius \div 2, circle_center_y)>>
        left(fill, outline, width) ==
            Ellipse(left_center_x - circle_radius, circle_center_y - circle_radius,
                    left_center_x + circle_radius, circle_center_y + circle_radius,
                    fill, outline, width)
        right(fill, outline, width) ==
            Ellipse(right_center_x - circle_radius, circle_center_y - circle_radius,
                    right_center_x + circle_radius, circle_center_y + circle_radius,
                    fill, outline, width)
    IN  <<left("color", "color", 1), right("color", "color", 1),
          Polygon(triangle_points, "color", "color", 1),
          left("none", "black", 2), right("none", "black", 2),
          Polygon(triangle_points, "none", "black", 2)>>

\* _draw_base_shape: the primitives drawn for one shape, in order; a shape
\* string matching no branch of the elif chain draws nothing
DrawBaseShape(shape, x, y, size) ==
    LET half_size == size \div 2 IN
    CASE shape = "square" ->
           <<Rectangle(x - half_size, y - half_size, x + half_size, y + half_size,
                       "color", "black", 2)>>
      [] shape = "circle" ->
           <<Ellipse(x - half_size, y - half_size, x + half_size, y + half_size,
                     "color", "black", 2)>>
      [] shape = "triangle" ->
           <<Polygon(<<Pt(x, y - half_size), Pt(x - half_size, y + half_size),
                       Pt(x + half_size, y + half_size)>>, "color", "black", 2)>>
      [] shape = "diamond" ->
           <<Polygon(<<Pt(x, y - half_size), Pt(x + half_size, y),
                       Pt(x, y + half_size), Pt(x - half_size, y)>>,
                     "color", "black", 2)>>
      [] shape = "pentagon" -> <<RegularPolygon(x, y, half_size, 5, 270)>>
      [] shape = "hexagon" -> <<RegularPolygon(x, y, half_size, 6, 0)>>
      [] shape = "rectangle" ->
           LET rect_width == TruncMul(half_size, 140)
               rect_height == TruncMul(half_size, 70)
           IN  <<Rectangle(x - rect_width, y - rect_height,
                           x + rect_width, y + rect_height, "color", "black", 2)>>
      [] shape = "oval" ->
           LET oval_width == TruncMul(half_size, 140)
               oval_height == TruncMul(half_size, 70)
           IN  <<Ellipse(x - oval_width, y - oval_height,
                         x + oval_width, y + oval_height, "color", "black", 2)>>
      [] shape = "star" -> [i \in 1..5 |-> StarSegment(x, y, half_size, i - 1)]
      [] shape = "heart" -> HeartOps(x, y, half_size)
      [] shape = "cross" ->
           LET thickness == half_size \div 4
           IN  <<Rectangle(x - thickness, y - half_size, x + thickness, y + half_size,
                           "color", "black", 2),
                 Rectangle(x - half_size, y - thickness, x + half_size, y + thickness,
                           "color", "black", 2)>>
      [] shape = "arrow" ->
           <<Polygon(<<Pt(x - half_size, y - half_size \div 2),
                       Pt(x, y - half_size \div 2),
                       Pt(x, y - half_size),
                       Pt(x + half_size, y),
                       Pt(x, y + half_size),
                       Pt(x, y + half_size \div 2),
                       Pt(x - half_size, y + half_size \div 2)>>,
                     "color", "black", 2)>>
      [] shape = "trapezoid" ->
           LET top_width == half_size \div 2
           IN  <<Polygon(<<Pt(x - top_width, y - half_size),
                           Pt(x + top_width, y - half_size),
                           Pt(x + half_size, y + half_size),
                           Pt(x - half_size, y + half_size)>>,
                         "color", "black", 2)>>
      [] shape = "rhombus" ->
           <<Polygon(<<Pt(x, y - half_size),
                       <<U(x) + half_size * 700000, U(y)>>,
                       Pt(x, y + half_size),
                       <<U(x) - half_size * 700000, U(y)>>>>,
                     "color", "black", 2)>>
      [] shape = "octagon" -> <<RegularPolygon(x, y, half_size, 8, 0)>>
      [] shape = "crescent" ->
           LET offset == half_size \div 3
               smaller_radius == TruncMul(half_size, 70)
           IN  <<Ellipse(x - half_size, y - half_size, x + half_size, y + half_size,
                         "color", "black", 2),
                 Ellipse(x - smaller_radius + offset, y - smaller_radius,
                         x + smaller_radius + offset, y + smaller_radius,
                         "white", "black", 2)>>
      [] shape = "plus" ->
           LET thickness == half_size \div 3
           IN  <<Rectangle(x - thickness, y - half_size, x + thickness, y + half_size,
                           "color", "black", 2),
                 Rectangle(x - half_size, y - thickness, x + half_size, y + thickness,
                           "color", "black", 2)>>
      [] shape = "minus" ->
           LET thickness == half_size \div 4
           IN  <<Rectangle(x - half_size, y - thickness, x + half_size, y + thickness,
                           "color", "black", 2)>>
      [] shape = "L_shape" ->
           LET thickness == half_size \div 3
           IN  <<Rectangle(x - half_size, y - half_size,
                           x - half_size + thickness, y + half_size,
                           "color", "black", 2),
                 Rectangle(x - half_size, y + half_size - thickness,
                           x + half_size, y + half_size, "color", "black", 2)>>
      [] shape = "T_shape" ->
           LET thickness == half_size \div 3
           IN  <<Rectangle(x - half_size, y - half_size,
                           x + half_size, y - half_size + thickness,
                           "color", "black", 2),
                 Rectangle(x - thickness \div 2, y - half_size,
                           x + thickness \div 2, y + half_size, "color", "black", 2)>>
      [] OTHER -> <<>>

\* the clamp without the bounds check: the scaled size is drawn as is
TransformedSize_Unclamped(cfg, x, y, size, td, shape_label) ==
    IF td.transformation_type = "scaling" /\ shape_label \in {"B", "D"}
    THEN TruncMul(size, td.scale_factor)
    ELSE size

\* lines 240-244: the size _draw_transformed_shape_at_position draws at
TransformedSize(cfg, x, y, size, td, shape_label) ==
    IF td.transformation_type = "scaling" /\ shape_label \in {"B", "D"}
    THEN LET scaled_size == TruncMul(size, td.scale_factor)
             max_allowed == GetMaxShapeSizeForPosition(cfg, x, y)
         IN  Min2(scaled_size, max_allowed)
    ELSE size

DrawTransformedShapeAtPosition(cfg, shape, pos, size, td, shape_label) ==
    DrawBaseShape(shape, pos[1], pos[2],
                  TransformedSize(cfg, pos[1], pos[2], size, td, shape_label))

\* every coordinate handed to a drawing primitive
DrawnPoints(ops) ==
    UNION {{ops[i].pts[j] : j \in 1..Len(ops[i].pts)} : i \in 1..Len(ops)}

----------------------------------------------------------------------------
(* Configurations                                                          *)

\* TaskConfig defaults (src/src/config.py)
DefaultConfig ==
    [image_size |-> <<512, 512>>, margin |-> 40, shape_size |-> 80,
     arrow_length |-> 60]

\* a small canvas whose every anchor is explored
CanvasW == 72

CanvasH == 64

SmallMargin == 2

SmallConfig ==
    [image_size |-> <<CanvasW, CanvasH>>, margin |-> SmallMargin, shape_size |-> 40,
     arrow_length |-> 60]

\* the four layout cells of a configuration (lines 173-180 and 203-210)
LayoutPositions(cfg) ==
    [A |-> <<cfg.margin + cfg.shape_size \div 2, cfg.image_size[2] \div 4>>,
     arrow1 |-> <<cfg.image_size[1] \div 2, cfg.image_size[2] \div 4>>,
     B |-> <<cfg.image_size[1] - cfg.margin - cfg.shape_size \div 2,
             cfg.image_size[2] \div 4>>,
     C |-> <<cfg.margin + cfg.shape_size \div 2, (3 * cfg.image_size[2]) \div 4>>,
     arrow2 |-> <<cfg.image_size[1] \div 2, (3 * cfg.image_size[2]) \div 4>>,
     D |-> <<cfg.image_size[1] - cfg.margin - cfg.shape_size \div 2,
             (3 * cfg.image_size[2]) \div 4>>]

\* anchors explored on the default canvas: the layout cells, the centre, the
\* corners and points next to each edge
DefaultAnchors ==
    {LayoutPositions(DefaultConfig).A, LayoutPositions(DefaultConfig).B,
     LayoutPositions(DefaultConfig).C, LayoutPositions(DefaultConfig).D,
     <<256, 128>>, <<128, 256>>, <<256, 256>>, <<384, 256>>, <<256, 384>>,
     <<0, 0>>, <<512, 512>>, <<40, 256>>, <<50, 256>>, <<69, 256>>, <<70, 256>>,
     <<71, 256>>, <<256, 60>>, <<256, 452>>, <<472, 256>>, <<100, 100>>}

GeomInputs ==
    {[cfg |-> DefaultConfig, pos |-> p] : p \in DefaultAnchors}
    \cup {[cfg |-> SmallConfig, pos |-> <<x, y>>] : x \in 0..CanvasW, y \in 0..CanvasH}

NoProbe == [edge |-> "none"]

NoDrawCall == [shape |-> "none"]

GeomIdle ==
    /\ config = DefaultConfig
    /\ position = <<0, 0>>
    /\ geom_pc = "off"
    /\ max_allowed_size = 0
    /\ probe = NoProbe
    /\ draw_call = NoDrawCall
    /\ canvas = <<>>

NoTaskPair == [task_id |-> "none"]

NoPath == [dir |-> "", name |-> ""]

\* create_video_from_frames has not been called
NoEncoding ==
    [called |-> FALSE, frame_sizes |-> <<>>, output_path |-> NoPath,
     raised |-> "none", result |-> NoPath, writer_opened |-> FALSE,
     created |-> {}, written |-> <<>>, released |-> FALSE]

\* no generator is being constructed and generate_task_pair is not running
PairIdle ==
    /\ generate_videos = FALSE
    /\ cv2_available = FALSE
    /\ video_generator = "None"
    /\ pair_pc = "off"
    /\ pair_raised = "none"
    /\ steps = <<>>
    /\ random_calls = <<>>
    /\ video_path = NoPath
    /\ prompt = "none"
    /\ task_pair = NoTaskPair
    /\ encoder = NoEncoding

GeomInit ==
    /\ \E g \in GeomInputs : config = g.cfg /\ position = g.pos
    /\ geom_pc = "idle"
    /\ max_allowed_size = 0
    /\ probe = NoProbe
    /\ draw_call = NoDrawCall
    /\ canvas = <<>>

----------------------------------------------------------------------------
(* Operations of the bounds specification                                  *)

\* _get_max_shape_size_for_position(x, y)
ComputeMaxShapeSize ==
    /\ geom_pc = "idle"
    /\ geom_pc' = "sized"
    /\ max_allowed_size' = GetMaxShapeSizeForPosition(config, position[1], position[2])
    /\ UNCHANGED <<config, position, probe, draw_call, canvas, allocVars, animVars,
                   pairVars>>

Edges == {"left", "right", "top", "bottom"}

\* the anchor one unit nearer to an edge of the canvas
StepToward(edge, pos) ==
    CASE edge = "left" -> <<pos[1] - 1, pos[2]>>
      [] edge = "right" -> <<pos[1] + 1, pos[2]>>
      [] edge = "top" -> <<pos[1], pos[2] - 1>>
      [] edge = "bottom" -> <<pos[1], pos[2] + 1>>

\* distance from the anchor to an edge of the canvas
DistanceTo(edge, cfg, pos) ==
    CASE edge = "left" -> pos[1]
      [] edge = "right" -> cfg.image_size[1] - pos[1]
      [] edge = "top" -> pos[2]
      [] edge = "bottom" -> cfg.image_size[2] - pos[2]

\* a second call of _get_max_shape_size_for_position, one unit nearer to edge
ProbeTowardEdge ==
    /\ geom_pc = "sized"
    /\ \E edge \in Edges :
          /\ DistanceTo(edge, config, position) > 0
          /\ probe' = [edge |-> edge,
                       pos |-> StepToward(edge, position),
                       size |-> GetMaxShapeSizeForPosition(
                                    config, StepToward(edge, position)[1],
                                    StepToward(edge, position)[2])]
    /\ geom_pc' = "probed"
    /\ UNCHANGED <<config, position, max_allowed_size, draw_call, canvas, allocVars,
                   animVars, pairVars>>

\* scale factors handed to the draw call: the smallest and the largest
DrawScaleFactors == {ScaleFactors[1], ScaleFactors[Len(ScaleFactors)]}

\* _draw_transformed_shape_at_position(draw, shape, position, shape_size,
\* task_data, label) on a blank canvas
DrawTransformed ==
    /\ geom_pc = "idle"
    /\ \E shape \in Range(BaseShapes), f \in DrawScaleFactors, label \in {"B", "D"} :
          LET td == GenerateScalingTask(shape, shape, f)
              size == TransformedSize(config, position[1], position[2],
                                      config.shape_size, td, label)
          IN  /\ draw_call' = [shape |-> shape, shape_label |-> label,
                               scale_factor |-> f, size |-> size,
                               outcome |-> "returned"]
              /\ canvas' = DrawTransformedShapeAtPosition(
                               config, shape, position, config.shape_size, td, label)
    /\ max_allowed_size' = GetMaxShapeSizeForPosition(config, position[1], position[2])
    /\ geom_pc' = "drawn"
    /\ UNCHANGED <<config, position, probe, allocVars, animVars, pairVars>>


----------------------------------------------------------------------------
(* Rounded shapes, arrows, question mark and the two static layouts        *)

Arc(x1, y1, x2, y2, start, end, fill, width) ==
    [prim |-> "arc", pts |-> <<Pt(x1, y1), Pt(x2, y2)>>,
     fill |-> fill, outline |-> "none", width |-> width, angles |-> <<start, end>>]

\* _draw_rounded_rectangle
DrawRoundedRectangle(x1, y1, x2, y2, radius) ==
    <<Rectangle(x1 + radius, y1, x2 - radius, y2, "color", "none", 1),
      Rectangle(x1, y1 + radius, x2, y2 - radius, "color", "none", 1),
      Ellipse(x1, y1, x1 + 2 * radius, y1 + 2 * radius, "color", "none", 1),
      Ellipse(x2 - 2 * radius, y1, x2, y1 + 2 * radius, "color", "none", 1),
      Ellipse(x1, y2 - 2 * radius, x1 + 2 * radius, y2, "color", "none", 1),
      Ellipse(x2 - 2 * radius, y2 - 2 * radius, x2, y2, "color", "none", 1),
      Arc(x1, y1, x1 + 2 * radius, y1 + 2 * radius, 180, 270, "black", 2),
      Arc(x2 - 2 * radius, y1, x2, y1 + 2 * radius, 270, 360, "black", 2),
      Arc(x1, y2 - 2 * radius, x1 + 2 * radius, y2, 90, 180, "black", 2),
      Arc(x2 - 2 * radius, y2 - 2 * radius, x2, y2, 0, 90, "black", 2),
      Line(x1 + radius, y1, x2 - radius, y1, "black", 2),
      Line(x1 + radius, y2, x2 - radius, y2, "black", 2),
      Line(x1, y1 + radius, x1, y2 - radius, "black", 2),
      Line(x2, y1 + radius, x2, y2 - radius, "black", 2)>>

\* _draw_rounded_shape
DrawRoundedShape(shape, x, y, size) ==
    LET half_size == size \div 2
        corner_radius == size \div 8
    IN  CASE shape = "square" ->
               DrawRoundedRectangle(x - half_size, y - half_size,
                                    x + half_size, y + half_size, corner_radius)
          [] shape = "triangle" ->
               <<Polygon(<<Pt(x, y - half_size), Pt(x - half_size, y + half_size),
                           Pt(x + half_size, y + half_size)>>, "color", "color", 1),
                 Ellipse(x - corner_radius, y - half_size - corner_radius,
                         x + corner_radius, y - half_size + corner_radius,
                         "color", "color", 1),
                 Ellipse(x - half_size - corner_radius, y + half_size - corner_radius,
                         x - half_size + corner_radius, y + half_size + corner_radius,
                         "color", "color", 1),
                 Ellipse(x + half_size - corner_radius, y + half_size - corner_radius,
                         x + half_size + corner_radius, y + half_size + corner_radius,
                         "color", "color", 1)>>
          [] OTHER -> DrawBaseShape(shape, x, y, size)

\* the identifiers starting with "rounded_" that the renderer is given, each
\* with shape.replace("rounded_", ""), which removes every occurrence
RoundedIdentifiers ==
    {<<"rounded_square", "square">>, <<"rounded_triangle", "triangle">>,
     <<"rounded_circle", "circle">>, <<"rounded_diamond", "diamond">>,
     <<"rounded_pentagon", "pentagon">>, <<"rounded_hexagon", "hexagon">>,
     <<"rounded_rectangle", "rectangle">>, <<"rounded_oval", "oval">>,
     <<"rounded_star", "star">>, <<"rounded_heart", "heart">>,
     <<"rounded_cross", "cross">>, <<"rounded_arrow", "arrow">>,
     <<"rounded_trapezoid", "trapezoid">>, <<"rounded_rhombus", "rhombus">>,
     <<"rounded_octagon", "octagon">>, <<"rounded_crescent", "crescent">>,
     <<"rounded_plus", "plus">>, <<"rounded_minus", "minus">>,
     <<"rounded_L_shape", "L_shape">>, <<"rounded_T_shape", "T_shape">>,
     <<"rounded_rounded_square", "square">>, <<"rounded_blob", "blob">>,
     <<"rounded_", "">>}

RoundedBase ==
    [s \in {p[1] : p \in RoundedIdentifiers} |->
        (CHOOSE p \in RoundedIdentifiers : p[1] = s)[2]]

\* the prefix left on the name handed to _draw_rounded_shape
DrawShapeAtPosition_PrefixKept(shape, pos, size) ==
    IF shape \in DOMAIN RoundedBase
    THEN DrawRoundedShape(shape, pos[1], pos[2], size)
    ELSE DrawBaseShape(shape, pos[1], pos[2], size)

\* _draw_shape_at_position
DrawShapeAtPosition(shape, pos, size) ==
    IF shape \in DOMAIN RoundedBase
    THEN DrawRoundedShape(RoundedBase[shape], pos[1], pos[2], size)
    ELSE DrawBaseShape(shape, pos[1], pos[2], size)

\* shape strings that name none of the 20 shapes, plain and prefixed
MalformedShapes == {"", "blob", "Square", "rounded_blob", "rounded_"}

ShapeIdentifiers ==
    Range(BaseShapes) \cup DOMAIN RoundedBase \cup MalformedShapes

\* how a call of _draw_shape_at_position ends: no branch of the if/elif
\* chains of lines 228-232, 476-496 and 272-469 raises, and a shape matching
\* no branch leaves the chain without drawing
DrawShapeOutcome(shape) == "returned"

\* _draw_shape_at_position(draw, shape, position, shape_size, task_data) on a
\* blank canvas, at the A or C cell as the three renderers call it
DrawShape ==
    /\ geom_pc = "idle"
    /\ position \in {LayoutPositions(config).A, LayoutPositions(config).C}
    /\ \E shape \in ShapeIdentifiers :
          /\ draw_call' = [shape |-> shape, shape_label |-> "none",
                           scale_factor |-> 100, size |-> config.shape_size,
                           outcome |-> DrawShapeOutcome(shape)]
          /\ canvas' = DrawShapeAtPosition(shape, position, config.shape_size)
    /\ geom_pc' = "drawn_plain"
    /\ UNCHANGED <<config, position, max_allowed_size, probe, allocVars, animVars,
                   pairVars>>

BoundsNext == ComputeMaxShapeSize \/ ProbeTowardEdge \/ DrawTransformed \/ DrawShape

\* _draw_arrow
DrawArrow(cfg, pos) ==
    LET x == pos[1]
        y == pos[2]
        length == cfg.arrow_length
    IN  <<Line(x - length \div 2, y, x + length \div 2 - 10, y, "black", 3),
          Polygon(<<Pt(x + length \div 2, y),
                    Pt(x + length \div 2 - 15, y - 8),
                    Pt(x + length \div 2 - 15, y + 8)>>, "black", "none", 1)>>

\* _draw_question_mark: a "?" centred on the position; the glyph box comes
\* from the font
DrawQuestionMark(cfg, pos) == <<Text(pos[1], pos[2], "grey")>>

\* lines 183-188, 213-218 and 627-631: A, arrow, scaled B, C, arrow
StaticLayout(cfg, td) ==
    LET positions == LayoutPositions(cfg)
        shape_size == cfg.shape_size
    IN  DrawShapeAtPosition(td.shape_a, positions.A, shape_size)
        \o DrawArrow(cfg, positions.arrow1)
        \o DrawTransformedShapeAtPosition(cfg, td.shape_b, positions.B, shape_size, td, "B")
        \o DrawShapeAtPosition(td.shape_c, positions.C, shape_size)
        \o DrawArrow(cfg, positions.arrow2)

\* _render_initial_state
RenderInitialState(cfg, td) ==
    StaticLayout(cfg, td) \o DrawQuestionMark(cfg, LayoutPositions(cfg).D)

\* _render_final_state
RenderFinalState(cfg, td) ==
    StaticLayout(cfg, td)
    \o DrawTransformedShapeAtPosition(cfg, td.shape_d, LayoutPositions(cfg).D,
                                      cfg.shape_size, td, "D")

----------------------------------------------------------------------------
(* Transformation animator                                                 *)

\* the morph target without the bounds check of lines 609-610
TargetSize_Unclamped(cfg) ==
    [sf \in Range(ScaleFactors) |-> TruncMul(cfg.shape_size, sf)]

\* lines 604-610: the clamped target size of the morph
TargetSize(cfg) ==
    [sf \in Range(ScaleFactors) |->
        LET answer_x == cfg.image_size[1] - cfg.margin - cfg.shape_size \div 2
            answer_y == (3 * cfg.image_size[2]) \div 4
            target_size == TruncMul(cfg.shape_size, sf)
            max_allowed == GetMaxShapeSizeForPosition(cfg, answer_x, answer_y)
        IN  Min2(target_size, max_allowed)]

\* the interpolation with a progress of 0.0 for a single frame
CurrentSize_SingleFrameAtStart(original_size, target_size, i, num_frames) ==
    IF num_frames > 1
    THEN (original_size * (num_frames - 1) + (target_size - original_size) * i)
             \div (num_frames - 1)
    ELSE original_size

\* the interpolation rounding to the nearest integer (a tie going to the
\* even neighbour) instead of truncating
CurrentSize_Nearest(original_size, target_size, i, num_frames) ==
    IF num_frames > 1
    THEN LET num == original_size * (num_frames - 1) + (target_size - original_size) * i
             q == num \div (num_frames - 1)
             r == num % (num_frames - 1)
         IN  IF 2 * r > num_frames - 1 \/ (2 * r = num_frames - 1 /\ q % 2 = 1)
             THEN q + 1 ELSE q
    ELSE target_size

\* the interpolation with a progress of (i + 1) / (n - 1)
CurrentSize_ProgressAhead(original_size, target_size, i, num_frames) ==
    IF num_frames > 1
    THEN (original_size * (num_frames - 1) + (target_size - original_size) * (i + 1))
             \div (num_frames - 1)
    ELSE target_size

\* lines 635-636: int(original + (target - original) * (i / (n - 1))), and a
\* progress of 1.0 when n is 1.  On IEEE doubles this equals the exact floor
\* for original sizes 30, 33, 40 and 80, every target in 10..172 (all the
\* targets reachable from them) and n <= 32 (computed with CPython).
CurrentSize(original_size, target_size, i, num_frames) ==
    IF num_frames > 1
    THEN (original_size * (num_frames - 1) + (target_size - original_size) * i)
             \div (num_frames - 1)
    ELSE target_size

\* lines 612-640: morph frame i (from 0)
MorphFrame(cfg, td, i, num_frames) ==
    LET answer_x == cfg.image_size[1] - cfg.margin - cfg.shape_size \div 2
        answer_y == (3 * cfg.image_size[2]) \div 4
    IN  StaticLayout(cfg, td)
        \o DrawBaseShape(td.shape_c, answer_x, answer_y,
                         CurrentSize(cfg.shape_size, TargetSize(cfg)[td.scale_factor],
                                     i, num_frames))

\* _create_scaling_morph_frames
CreateScalingMorphFrames(cfg, td, num_frames) ==
    [k \in 1..num_frames |-> MorphFrame(cfg, td, k - 1, num_frames)]

\* the hold loops appending one frame too few
Copies_OneShort(image, n) == [k \in 1..(IF n > 0 THEN n - 1 ELSE 0) |-> image]

\* "for _ in range(hold_frames): frames.append(image.copy())"
Copies(image, n) == [k \in 1..n |-> image]

\* _create_transformation_frames
CreateTransformationFrames(cfg, first, final, td, hold, scale) ==
    Copies(first, hold) \o CreateScalingMorphFrames(cfg, td, scale) \o Copies(final, hold)

\* Image objects alive when the animator runs: the two renders handed to it
FirstImageObject == 1

FinalImageObject == 2

\* appending the image itself instead of a copy
ImageCopy_Alias(source_object, fresh_object) == source_object

\* image.copy(): a new Image object with the pixels of the source
ImageCopy(source_object, fresh_object) == fresh_object

\* the object appended at each position of the frame list: a copy per hold
\* frame, a create_blank_image() result per morph frame
FrameObjects(hold, scale) ==
    [k \in 1..(2 * hold + scale) |->
        IF k <= hold THEN ImageCopy(FirstImageObject, FinalImageObject + k)
        ELSE IF k <= hold + scale THEN FinalImageObject + k
        ELSE ImageCopy(FinalImageObject, FinalImageObject + k)]

\* bounds of the animator model
MaxAnimShapes == 3

MaxHold == 2

MaxScaleFrames == 4

\* the default configuration with a smaller shape
SmallShapeConfig == [DefaultConfig EXCEPT !.shape_size = 30]

\* the default configuration with a shape size that is no multiple of 10
OddShapeConfig == [DefaultConfig EXCEPT !.shape_size = 33]

AnimConfigs == {DefaultConfig, SmallShapeConfig, OddShapeConfig, SmallConfig}

\* task data as _generate_task_data returns it, over the first shapes
AnimTasks ==
    {GenerateScalingTask(p[1], p[2], f) :
        p \in RandomSample2(SubSeq(BaseShapes, 1, MaxAnimShapes)),
        f \in Range(ScaleFactors)}

\* (hold_frames, scale_frames): small counts and the defaults of line 572
FrameCounts ==
    ((0..MaxHold) \X (1..MaxScaleFrames)) \cup {<<15, 30>>}

AnimIdle ==
    /\ anim_pc = "off"
    /\ hold_frames = 0
    /\ scale_frames = 0
    /\ first_image = <<>>
    /\ final_image = <<>>
    /\ frames = <<>>
    /\ morph_sizes = <<>>
    /\ frame_objects = <<>>
    /\ morph_target = 0

AnimInit ==
    /\ base_shapes = BaseShapes
    /\ scale_factors = ScaleFactors
    /\ generated_combinations = {}
    /\ \E td \in AnimTasks : task_data = td
    /\ raised = "none"
    /\ branch = "none"
    /\ attempts = 0
    /\ warnings = 0
    /\ calls = 0
    /\ returned_keys = {}
    /\ \E cfg \in AnimConfigs : config = cfg
    /\ position = <<0, 0>>
    /\ geom_pc = "off"
    /\ max_allowed_size = 0
    /\ probe = NoProbe
    /\ draw_call = NoDrawCall
    /\ canvas = <<>>
    /\ anim_pc = "render_initial"
    /\ \E c \in FrameCounts : hold_frames = c[1] /\ scale_frames = c[2]
    /\ first_image = <<>>
    /\ final_image = <<>>
    /\ frames = <<>>
    /\ morph_sizes = <<>>
    /\ frame_objects = <<>>
    /\ morph_target = 0
    /\ PairIdle

\* first_image = self._render_initial_state(task_data)
RenderInitial ==
    /\ anim_pc = "render_initial"
    /\ first_image' = RenderInitialState(config, task_data)
    /\ anim_pc' = "render_final"
    /\ UNCHANGED <<allocVars, geomVars, pairVars, hold_frames, scale_frames, final_image,
                   frames, morph_sizes, frame_objects, morph_target>>

\* final_image = self._render_final_state(task_data)
RenderFinal ==
    /\ anim_pc = "render_final"
    /\ final_image' = RenderFinalState(config, task_data)
    /\ anim_pc' = "animate"
    /\ UNCHANGED <<allocVars, geomVars, pairVars, hold_frames, scale_frames, first_image,
                   frames, morph_sizes, frame_objects, morph_target>>

\* frames = self._create_transformation_frames(first_image, final_image,
\* task_data, hold_frames, scale_frames)
CreateFrames ==
    /\ anim_pc = "animate"
    /\ frames' = CreateTransformationFrames(config, first_image, final_image,
                                            task_data, hold_frames, scale_frames)
    /\ morph_sizes' = [k \in 1..scale_frames |->
                          CurrentSize(config.shape_size,
                                      TargetSize(config)[task_data.scale_factor],
                                      k - 1, scale_frames)]
    /\ frame_objects' = FrameObjects(hold_frames, scale_frames)
    /\ morph_target' = TargetSize(config)[task_data.scale_factor]
    /\ anim_pc' = "done"
    /\ UNCHANGED <<allocVars, geomVars, pairVars, hold_frames, scale_frames, first_image,
                   final_image>>

AnimNext == RenderInitial \/ RenderFinal \/ CreateFrames

SpecAnim == AnimInit /\ [][AnimNext]_vars

\* configurations of the two static renders: the default one, a canvas of
\* 510 x 510 with shapes of 200, a canvas of 512 x 302, and the small canvas
LayoutConfigs ==
    {DefaultConfig,
     [DefaultConfig EXCEPT !.image_size = <<510, 510>>, !.shape_size = 200],
     [DefaultConfig EXCEPT !.image_size = <<512, 302>>],
     SmallConfig}

\* a generator of one of the layout configurations, about to render the two
\* images of a task
LayoutInit ==
    /\ base_shapes = BaseShapes
    /\ scale_factors = ScaleFactors
    /\ generated_combinations = {}
    /\ \E td \in AnimTasks : task_data = td
    /\ raised = "none"
    /\ branch = "none"
    /\ attempts = 0
    /\ warnings = 0
    /\ calls = 0
    /\ returned_keys = {}
    /\ \E cfg \in LayoutConfigs : config = cfg
    /\ position = <<0, 0>>
    /\ geom_pc = "off"
    /\ max_allowed_size = 0
    /\ probe = NoProbe
    /\ draw_call = NoDrawCall
    /\ canvas = <<>>
    /\ anim_pc = "render_initial"
    /\ hold_frames = 15
    /\ scale_frames = 30
    /\ first_image = <<>>
    /\ final_image = <<>>
    /\ frames = <<>>
    /\ morph_sizes = <<>>
    /\ frame_objects = <<>>
    /\ morph_target = 0
    /\ PairIdle

LayoutNext == RenderInitial \/ RenderFinal

SpecLayout == LayoutInit /\ [][LayoutNext]_vars


----------------------------------------------------------------------------
(* Video collaborator (src/core/video_utils.py)                            *)

\* the emptiness test made after the writer was opened
CreateVideoFromFrames_CheckAfterOpen(frame_sizes, output_path, size) ==
    [called |-> TRUE, frame_sizes |-> frame_sizes, output_path |-> output_path,
     raised |-> IF Len(frame_sizes) = 0 THEN "ValueError" ELSE "none",
     result |-> IF Len(frame_sizes) = 0 THEN NoPath ELSE output_path,
     writer_opened |-> TRUE,
     created |-> {[kind |-> "dir", path |-> [dir |-> output_path.dir, name |-> ""]],
                  [kind |-> "file", path |-> output_path]},
     written |-> <<>>, released |-> FALSE]

\* VideoGenerator.create_video_from_frames(frames, output_path, size): the
\* frames are given by their sizes, size <<>> stands for None
CreateVideoFromFrames(frame_sizes, output_path, size) ==
    IF Len(frame_sizes) = 0
    THEN [called |-> TRUE, frame_sizes |-> frame_sizes, output_path |-> output_path,
          raised |-> "ValueError", result |-> NoPath, writer_opened |-> FALSE,
          created |-> {}, written |-> <<>>, released |-> FALSE]
    ELSE LET video_size == IF size = <<>> THEN frame_sizes[1] ELSE size
         IN  [called |-> TRUE, frame_sizes |-> frame_sizes, output_path |-> output_path,
              raised |-> "none", result |-> output_path, writer_opened |-> TRUE,
              created |-> {[kind |-> "dir",
                            path |-> [dir |-> output_path.dir, name |-> ""]],
                           [kind |-> "file", path |-> output_path]},
              written |-> [k \in 1..Len(frame_sizes) |->
                              [size |-> video_size,
                               resized |-> frame_sizes[k] # video_size]],
              released |-> TRUE]

\* longest frame list handed to the encoder
MaxFrames == 4

FrameSizes == {DefaultConfig.image_size, SmallConfig.image_size}

RECURSIVE SeqsUpTo(_, _)
SeqsUpTo(S, n) ==
    IF n = 0 THEN {<<>>}
    ELSE SeqsUpTo(S, n - 1)
         \cup {Append(q, e) : q \in {r \in SeqsUpTo(S, n - 1) : Len(r) = n - 1}, e \in S}

OutputPaths ==
    {[dir |-> "/tmp/shape_scaling_videos", name |-> "task_0000_ground_truth.mp4"],
     [dir |-> "out", name |-> "clip.mp4"]}

\* VideoGenerator.__init__
NewVideoGenerator ==
    /\ pair_pc = "encoder_new"
    /\ IF cv2_available
       THEN /\ video_generator' = "VideoGenerator"
            /\ pair_pc' = "encoder_ready"
            /\ UNCHANGED pair_raised
       ELSE /\ pair_raised' = "ImportError"
            /\ pair_pc' = "raised"
            /\ UNCHANGED video_generator
    /\ UNCHANGED <<generate_videos, cv2_available, steps, random_calls, video_path,
                   prompt, task_pair, encoder, allocVars, geomVars, animVars>>

\* video_generator.create_video_from_frames(frames, output_path, size)
EncodeFrames ==
    /\ pair_pc = "encoder_ready"
    /\ video_generator = "VideoGenerator"
    /\ \E frame_sizes \in SeqsUpTo(FrameSizes, MaxFrames), output_path \in OutputPaths,
          size \in FrameSizes \cup {<<>>} :
          /\ encoder' = CreateVideoFromFrames(frame_sizes, output_path, size)
          /\ pair_raised' = CreateVideoFromFrames(frame_sizes, output_path, size).raised
    /\ pair_pc' = "encoded"
    /\ UNCHANGED <<generate_videos, cv2_available, video_generator, steps, random_calls,
                   video_path, prompt, task_pair, allocVars, geomVars, animVars>>

VideoInit ==
    /\ AllocIdle
    /\ GeomIdle
    /\ AnimIdle
    /\ generate_videos = TRUE
    /\ cv2_available \in BOOLEAN
    /\ video_generator = "None"
    /\ pair_pc = "encoder_new"
    /\ pair_raised = "none"
    /\ steps = <<>>
    /\ random_calls = <<>>
    /\ video_path = NoPath
    /\ prompt = "none"
    /\ task_pair = NoTaskPair
    /\ encoder = NoEncoding

VideoNext == NewVideoGenerator \/ EncodeFrames

SpecVideo == VideoInit /\ [][VideoNext]_vars

----------------------------------------------------------------------------
(* Task assembly: the constructor and generate_task_pair                   *)

\* what class VideoGenerator defines (core/video_utils.py:20-124)
VideoGeneratorAttributes == {"__init__", "create_video_from_frames", "interpolate_frames"}

\* the parameters of VideoGenerator.__init__ (core/video_utils.py:23)
VideoGeneratorInitParams == {"fps", "codec"}

\* lines 35-38 of the constructor.  A probe the class defined is taken to
\* report CV2_AVAILABLE.
VideoGeneratorSetup(gen_videos, cv2) ==
    IF ~gen_videos THEN [raised |-> "none", video_generator |-> "None"]
    ELSE IF "is_available" \notin VideoGeneratorAttributes
         THEN [raised |-> "AttributeError", video_generator |-> "None"]
    ELSE IF ~cv2 THEN [raised |-> "none", video_generator |-> "None"]
    ELSE IF ~({"fps", "output_format"} \subseteq VideoGeneratorInitParams)
         THEN [raised |-> "TypeError", video_generator |-> "None"]
    ELSE [raised |-> "none", video_generator |-> "VideoGenerator"]

\* PROMPTS of src/prompts.py, each text by its opening words
PROMPTS ==
    [default |-> <<"Show the size transformation", "Animate ... question mark",
                   "Complete the visual analogy">>,
     scaling |-> <<"Show the size transformation", "Animate the scaling",
                   "Complete the analogy">>]

\* PROMPTS.get(task_type, PROMPTS["default"])
PromptList(task_type) ==
    IF task_type \in DOMAIN PROMPTS THEN PROMPTS[task_type] ELSE PROMPTS["default"]

\* fields of core/schemas.py TaskPair without and with a default
TaskPairRequired == {"task_id", "domain", "prompt", "first_image", "metadata"}

TaskPairOptional == {"final_image", "goal_text"}

\* TaskPair(**kwargs): a required field that is not given fails validation,
\* a keyword that is no field is dropped
TaskPairModel(kwargs) ==
    IF TaskPairRequired \subseteq DOMAIN kwargs
    THEN [raised |-> "none",
          value |-> [f \in (TaskPairRequired \cup TaskPairOptional) \cap DOMAIN kwargs
                        |-> kwargs[f]]]
    ELSE [raised |-> "ValidationError", value |-> NoTaskPair]

\* the statements of generate_task_pair in program order, from line 71 on
\* with the prompt selected before the images are rendered
NextPairStep_PromptFirst(step) ==
    CASE step = "task_data" -> "prompt"
      [] step = "prompt" -> "render_initial"
      [] step = "render_initial" -> "render_final"
      [] step = "render_final" -> "video"
      [] step = "video" -> "assemble"

\* the statements of generate_task_pair in program order (lines 63-84)
NextPairStep(step) ==
    CASE step = "task_data" -> "render_initial"
      [] step = "render_initial" -> "render_final"
      [] step = "render_final" -> "video"
      [] step = "video" -> "prompt"
      [] step = "prompt" -> "assemble"

RandomCall(fn, population) == [fn |-> fn, population |-> population]

\* the random calls of n iterations of lines 103-104 (or of the one pass
\* through lines 122-123): the calls of one iteration, made n times over
AttemptDraws(n) ==
    <<[step |-> "task_data", times |-> n,
       calls |-> <<RandomCall("random.sample", "base_shapes"),
                   RandomCall("random.choice", "scale_factors")>>]>>

\* generate_task_pair calls explored on one generator
MaxPairCalls == 3

\* TaskGenerator(config)
Construct ==
    /\ pair_pc = "construct"
    /\ LET r == VideoGeneratorSetup(generate_videos, cv2_available)
       IN  /\ video_generator' = r.video_generator
           /\ pair_raised' = r.raised
           /\ pair_pc' = IF r.raised = "none" THEN "ready" ELSE "no_generator"
    /\ UNCHANGED <<generate_videos, cv2_available, steps, random_calls, video_path,
                   prompt, task_pair, encoder, allocVars, geomVars, animVars>>

\* line 63: task_data = self._generate_task_data()
PairTaskData ==
    /\ pair_pc \in {"ready", "returned", "raised"}
    /\ calls < MaxPairCalls
    /\ UniqueRandomDrawStep \/ SystematicFallbackStep \/ ReplacementDrawStep
    /\ steps' = <<"draw_combination", "build_task_data">>
    /\ random_calls' = AttemptDraws(attempts')
    /\ pair_raised' = "none"
    /\ pair_pc' = NextPairStep("task_data")
    /\ video_path' = NoPath
    /\ encoder' = NoEncoding
    /\ UNCHANGED <<generate_videos, cv2_available, video_generator, prompt, task_pair,
                   geomVars, animVars>>

\* line 66: first_image = self._render_initial_state(task_data)
PairRenderInitial ==
    /\ pair_pc = "render_initial"
    /\ first_image' = RenderInitialState(config, task_data)
    /\ steps' = Append(steps, "render_initial")
    /\ pair_pc' = NextPairStep("render_initial")
    /\ UNCHANGED <<generate_videos, cv2_available, video_generator, pair_raised,
                   random_calls, video_path, prompt, task_pair, encoder, allocVars,
                   geomVars, anim_pc, hold_frames, scale_frames, final_image, frames,
                   morph_sizes, frame_objects, morph_target>>

\* line 67: final_image = self._render_final_state(task_data)
PairRenderFinal ==
    /\ pair_pc = "render_final"
    /\ final_image' = RenderFinalState(config, task_data)
    /\ steps' = Append(steps, "render_final")
    /\ pair_pc' = NextPairStep("render_final")
    /\ UNCHANGED <<generate_videos, cv2_available, video_generator, pair_raised,
                   random_calls, video_path, prompt, task_pair, encoder, allocVars,
                   geomVars, anim_pc, hold_frames, scale_frames, first_image, frames,
                   morph_sizes, frame_objects, morph_target>>

\* lines 70-72 and 560-570: video_path = None, then _generate_video when
\* videos are enabled and a video generator exists
PairVideo ==
    /\ pair_pc = "video"
    /\ IF generate_videos /\ video_generator # "None"
       THEN /\ frames' = CreateTransformationFrames(config, first_image, final_image,
                                                    task_data, hold_frames, scale_frames)
            /\ morph_sizes' = [k \in 1..scale_frames |->
                                  CurrentSize(config.shape_size,
                                              TargetSize(config)[task_data.scale_factor],
                                              k - 1, scale_frames)]
            /\ frame_objects' = FrameObjects(hold_frames, scale_frames)
            /\ morph_target' = TargetSize(config)[task_data.scale_factor]
            /\ LET output_path == [dir |-> "/tmp/shape_scaling_videos",
                                   name |-> "task_0000_ground_truth.mp4"]
                   result == CreateVideoFromFrames(
                                 [k \in 1..(2 * hold_frames + scale_frames)
                                     |-> config.image_size], output_path, <<>>)
               IN  /\ encoder' = result
                   /\ video_path' = result.result
                   /\ pair_raised' = result.raised
                   /\ pair_pc' = IF result.raised = "none"
                                 THEN NextPairStep("video") ELSE "raised"
            /\ steps' = steps \o <<"animate", "encode">>
       ELSE /\ pair_pc' = NextPairStep("video")
            /\ UNCHANGED <<frames, morph_sizes, frame_objects, morph_target, encoder,
                           video_path, pair_raised, steps>>
    /\ UNCHANGED <<generate_videos, cv2_available, video_generator, random_calls, prompt,
                   task_pair, allocVars, geomVars, anim_pc, hold_frames, scale_frames,
                   first_image, final_image>>

\* line 75: prompt = get_prompt(task_data.get("transformation_type", "default"))
PairPrompt ==
    /\ pair_pc = "prompt"
    /\ \E text \in RandomChoice(PromptList(task_data.transformation_type)) :
          prompt' = text
    /\ random_calls' = Append(random_calls,
                              [step |-> "prompt", times |-> 1,
                               calls |-> <<RandomCall("random.choice", "prompts")>>])
    /\ steps' = Append(steps, "prompt")
    /\ pair_pc' = NextPairStep("prompt")
    /\ UNCHANGED <<generate_videos, cv2_available, video_generator, pair_raised,
                   video_path, task_pair, encoder, allocVars, geomVars, animVars>>

\* lines 77-84: return TaskPair(task_id=..., ..., ground_truth_video=video_path)
PairAssemble ==
    /\ pair_pc = "assemble"
    /\ LET r == TaskPairModel([task_id |-> "task_0000", domain |-> "shape_scaling",
                               prompt |-> prompt, first_image |-> first_image,
                               final_image |-> final_image,
                               ground_truth_video |-> video_path])
       IN  /\ pair_raised' = r.raised
           /\ task_pair' = r.value
           /\ pair_pc' = IF r.raised = "none" THEN "returned" ELSE "raised"
    /\ steps' = Append(steps, "assemble")
    /\ UNCHANGED <<generate_videos, cv2_available, video_generator, random_calls,
                   video_path, prompt, encoder, allocVars, geomVars, animVars>>

\* a generator about to be built from a configuration, with the default
\* frame counts of line 572
PairInit ==
    /\ AllocInit
    /\ GeomIdle
    /\ anim_pc = "off"
    /\ hold_frames = 15
    /\ scale_frames = 30
    /\ first_image = <<>>
    /\ final_image = <<>>
    /\ frames = <<>>
    /\ morph_sizes = <<>>
    /\ frame_objects = <<>>
    /\ morph_target = 0
    /\ generate_videos \in BOOLEAN
    /\ cv2_available \in BOOLEAN
    /\ video_generator = "None"
    /\ pair_pc = "construct"
    /\ pair_raised = "none"
    /\ steps = <<>>
    /\ random_calls = <<>>
    /\ video_path = NoPath
    /\ prompt = "none"
    /\ task_pair = NoTaskPair
    /\ encoder = NoEncoding

PairNext ==
    \/ Construct
    \/ PairTaskData
    \/ PairRenderInitial
    \/ PairRenderFinal
    \/ PairVideo
    \/ PairPrompt
    \/ PairAssemble

SpecPair == PairInit /\ [][PairNext]_vars

----------------------------------------------------------------------------
(* Specifications                                                          *)

Init == AllocInit /\ GeomIdle /\ AnimIdle /\ PairIdle

Next == GenerateTaskData

Spec == Init /\ [][Next]_vars

BoundsInit == AllocIdle /\ GeomInit /\ AnimIdle /\ PairIdle

SpecBounds == BoundsInit /\ [][BoundsNext]_vars

----------------------------------------------------------------------------
(* Properties of the combination allocator                                 *)

DomainSize == MaxUniqueCombinations(base_shapes, scale_factors)

\* every (shape_a, shape_c, scale_factor) with shape_a # shape_c
KeyDomain ==
    {k \in Range(base_shapes) \X Range(base_shapes) \X Range(scale_factors) :
        k[1] # k[2]}

IndexIn(s, v) == CHOOSE i \in 1..Len(s) : s[i] = v

\* position of a key in the order shape_a, then shape_c, then scale_factor
EnumerationRank(k) ==
    (IndexIn(base_shapes, k[1]) * (Len(base_shapes) + 1)
        + IndexIn(base_shapes, k[2])) * (Len(scale_factors) + 1)
    + IndexIn(scale_factors, k[3])

\* C1: from a fresh allocator, the keys returned by the first N <= M calls
\* are pairwise distinct: N calls have returned N different keys.
C1_Uniqueness ==
    calls <= DomainSize => Cardinality(returned_keys) = calls

C1_Witness ==
    /\ calls = DomainSize
    /\ DomainSize >= 6
    /\ branch = "random"
    /\ attempts > 1

\* C2: a call made once all M keys are used does not raise and returns one
\* of the M keys already used.
C2_ExhaustionReuses ==
    [][Cardinality(generated_combinations) = DomainSize
         => /\ raised' = "none"
            /\ task_data' # NoTask
            /\ CombinationKey(task_data') \in generated_combinations
            /\ CombinationKey(task_data') \in returned_keys]_vars

C2_Witness ==
    /\ DomainSize = 2
    /\ calls = 3
    /\ branch = "replacement"
    /\ raised = "none"
    /\ CombinationKey(task_data) \in generated_combinations

\* C3: the exhaustion warning is printed exactly once, by the first call
\* made with all M keys used, and by no later call.
C3_WarnedOnce ==
    warnings = IF calls > DomainSize THEN 1 ELSE 0

\* C4: when every random attempt collides while fewer than M keys are used,
\* the systematic scan returns and records the first unused key in the order
\* shape_a, shape_c, scale_factor; wherever fewer than M keys are used the
\* scan finds a key, so the RuntimeError is never raised.
C4_SystematicFallback ==
    /\ [](Cardinality(generated_combinations) < DomainSize
            => SystematicUniqueCombination(base_shapes, scale_factors,
                                           generated_combinations).found)
    /\ [](raised = "none")
    /\ [][branch' = "systematic"
            => /\ task_data' # NoTask
               /\ LET k == CombinationKey(task_data')
                  IN  /\ k \in KeyDomain \ generated_combinations
                      /\ generated_combinations' = generated_combinations \cup {k}
                      /\ \A u \in KeyDomain \ generated_combinations :
                            EnumerationRank(k) <= EnumerationRank(u)]_vars

C4_Witness ==
    /\ branch = "systematic"
    /\ attempts = max_attempts
    /\ Cardinality(generated_combinations) >= 3
    /\ Cardinality(generated_combinations) < DomainSize
    /\ \E u \in generated_combinations :
          EnumerationRank(u) > EnumerationRank(CombinationKey(task_data))
    /\ \E u \in generated_combinations :
          EnumerationRank(u) < EnumerationRank(CombinationKey(task_data))

\* C18: the task data returned by every branch of the allocator has
\* transformation_type "scaling", shape_b = shape_a, shape_d = shape_c,
\* shape_a # shape_c, both shapes from the configured shape list and
\* scale_factor from the configured scale-factor list (never 1.0).
C18_WellFormedTaskData ==
    task_data # NoTask
      => /\ branch \in {"random", "systematic", "replacement"}
         /\ task_data.transformation_type = "scaling"
         /\ task_data.shape_b = task_data.shape_a
         /\ task_data.shape_d = task_data.shape_c
         /\ task_data.shape_a # task_data.shape_c
         /\ task_data.shape_a \in Range(base_shapes)
         /\ task_data.shape_c \in Range(base_shapes)
         /\ task_data.scale_factor \in Range(scale_factors)
         /\ task_data.scale_factor # 100

C18_Witness ==
    /\ branch = "replacement"
    /\ Len(base_shapes) = 3
    /\ task_data.shape_a = base_shapes[3]
    /\ task_data.shape_b = base_shapes[3]
    /\ task_data.shape_c = base_shapes[1]
    /\ task_data.shape_d = base_shapes[1]

\* C20: no call shrinks the used set; a call made with fewer than M keys
\* used adds exactly the key it returns, a call made with all M keys used
\* leaves the set as it is; after k calls the set has min(k, M) keys, all
\* of them in the M-key domain.
C20_UsedSetEvolution ==
    /\ [](/\ generated_combinations \subseteq KeyDomain
          /\ Cardinality(generated_combinations)
                = IF calls <= DomainSize THEN calls ELSE DomainSize)
    /\ [][/\ generated_combinations \subseteq generated_combinations'
          /\ calls' = calls + 1
               => IF Cardinality(generated_combinations) < DomainSize
                  THEN /\ CombinationKey(task_data') \notin generated_combinations
                       /\ generated_combinations'
                            = generated_combinations \cup {CombinationKey(task_data')}
                  ELSE generated_combinations' = generated_combinations]_vars

C20_Witness ==
    /\ calls = DomainSize + 2
    /\ DomainSize = 4
    /\ Cardinality(generated_combinations) = DomainSize
    /\ generated_combinations = KeyDomain
    /\ branch = "replacement"

----------------------------------------------------------------------------
(* Properties of the layout/bounds calculator                              *)

SetMin(S) == CHOOSE m \in S : \A n \in S : m <= n

SetMax(S) == CHOOSE m \in S : \A n \in S : m >= n

\* the four signed distances from an anchor to the margined canvas edges
EdgeSpaces(cfg, pos) ==
    {pos[1] - cfg.margin, cfg.image_size[1] - pos[1] - cfg.margin,
     pos[2] - cfg.margin, cfg.image_size[2] - pos[2] - cfg.margin}

\* C5: the calculator returns 2 * max(min(x - m, W - x - m, y - m, H - y - m)
\* - 10, 20); at (256, 128) on the 512x512 canvas with margin 40 that is 156.
C5_MaxSizeFormula ==
    geom_pc = "sized"
      => /\ max_allowed_size
              = 2 * SetMax({SetMin(EdgeSpaces(config, position)) - 10, 20})
         /\ (config = DefaultConfig /\ position = <<256, 128>>)
              => max_allowed_size = 156

C5_Witness ==
    /\ geom_pc = "sized"
    /\ config = DefaultConfig
    /\ position = <<256, 128>>
    /\ max_allowed_size = 156

InsideMarginedCanvas(cfg, p) ==
    /\ U(cfg.margin) <= p[1]
    /\ p[1] <= U(cfg.image_size[1] - cfg.margin)
    /\ U(cfg.margin) <= p[2]
    /\ p[2] <= U(cfg.image_size[2] - cfg.margin)

\* C6: a shape drawn at an anchor with the size the calculator returns for
\* that anchor has every drawn coordinate inside the margined canvas.
C6_Containment ==
    (geom_pc = "drawn" /\ draw_call.size = max_allowed_size)
      => \A p \in DrawnPoints(canvas) : InsideMarginedCanvas(config, p)

\* C7 as stated: one unit nearer to any of the four edges never increases
\* the returned value.
C7_MonotoneAnyEdge ==
    geom_pc = "probed" => probe.size <= max_allowed_size

OppositeEdge(edge) ==
    CASE edge = "left" -> "right"
      [] edge = "right" -> "left"
      [] edge = "top" -> "bottom"
      [] edge = "bottom" -> "top"

\* C7 amended: one unit nearer to an edge never increases the returned value
\* when the anchor is at least as near to that edge as to the opposite edge.
C7_MonotoneNearerEdge ==
    (/\ geom_pc = "probed"
     /\ DistanceTo(probe.edge, config, position)
           <= DistanceTo(OppositeEdge(probe.edge), config, position))
      => probe.size <= max_allowed_size

C7_Witness ==
    /\ geom_pc = "probed"
    /\ DistanceTo(probe.edge, config, position)
          <= DistanceTo(OppositeEdge(probe.edge), config, position)
    /\ probe.size < max_allowed_size

\* C8: the calculator never returns less than 40, also for anchors on or
\* outside the margined area.
C8_AtLeastForty ==
    /\ geom_pc \in {"sized", "probed", "drawn"} => max_allowed_size >= 40
    /\ geom_pc = "probed" => probe.size >= 40

C8_Witness ==
    /\ geom_pc = "sized"
    /\ SetMin(EdgeSpaces(config, position)) - 10 < 0
    /\ ~InsideMarginedCanvas(config, Pt(position[1], position[2]))
    /\ max_allowed_size = 40

----------------------------------------------------------------------------
(* Properties of the transformation animator                               *)

AnswerPosition == LayoutPositions(config).D

\* a frame that shows the static layout and the answer shape at a given size
ShowsAnswerAt(frame, size) ==
    frame = StaticLayout(config, task_data)
              \o DrawBaseShape(task_data.shape_c, AnswerPosition[1],
                               AnswerPosition[2], size)

ClampedTarget == TargetSize(config)[task_data.scale_factor]

\* C9: the animator returns exactly 2h + s frames: h frames of the initial
\* layout, then s morph frames, then h frames of the final layout.
C9_FrameCount ==
    anim_pc = "done"
      => /\ Len(frames) = 2 * hold_frames + scale_frames
         /\ Len(morph_sizes) = scale_frames
         /\ \A k \in 1..Len(frames) :
               IF k <= hold_frames THEN frames[k] = first_image
               ELSE IF k <= hold_frames + scale_frames
                    THEN ShowsAnswerAt(frames[k], morph_sizes[k - hold_frames])
                    ELSE frames[k] = final_image

C9_Witness ==
    /\ anim_pc = "done"
    /\ hold_frames = 2
    /\ scale_frames = 3
    /\ Len(frames) = 7
    /\ first_image # final_image
    /\ frames[2] # frames[3]

\* C10 as stated: for every s >= 1 the first morph frame shows the answer
\* shape at original_size and the last morph frame shows it at target_size.
C10_MorphEndpoints ==
    anim_pc = "done"
      => /\ morph_sizes[1] = config.shape_size
         /\ ShowsAnswerAt(frames[hold_frames + 1], config.shape_size)
         /\ morph_sizes[scale_frames] = ClampedTarget
         /\ ShowsAnswerAt(frames[hold_frames + scale_frames], ClampedTarget)

\* C10 amended: for s >= 2 the first morph frame shows the answer shape at
\* original_size and the last at target_size; for s = 1 the single morph
\* frame shows it at target_size.
C10_MorphEndpointsAmended ==
    anim_pc = "done"
      => /\ morph_sizes[scale_frames] = ClampedTarget
         /\ ShowsAnswerAt(frames[hold_frames + scale_frames], ClampedTarget)
         /\ scale_frames >= 2
              => /\ morph_sizes[1] = config.shape_size
                 /\ ShowsAnswerAt(frames[hold_frames + 1], config.shape_size)

C10_Witness ==
    /\ anim_pc = "done"
    /\ scale_frames = 4
    /\ hold_frames = 1
    /\ ClampedTarget # config.shape_size
    /\ ClampedTarget < TruncMul(config.shape_size, task_data.scale_factor)
    /\ morph_sizes[1] = config.shape_size
    /\ morph_sizes[4] = ClampedTarget
    /\ ShowsAnswerAt(frames[2], config.shape_size)
    /\ ShowsAnswerAt(frames[5], ClampedTarget)
    /\ ~ShowsAnswerAt(frames[5], config.shape_size)

\* C11: the first h frames equal the initial layout render and the last h
\* frames equal the final layout render; every hold frame is an Image object
\* of its own, distinct from both renders and from every other frame, and
\* the animator leaves the two renders as they were.
C11_HoldFrames ==
    /\ [](anim_pc = "done"
            => /\ \A k \in 1..hold_frames :
                     /\ frames[k] = RenderInitialState(config, task_data)
                     /\ frames[k] = first_image
                     /\ frames[hold_frames + scale_frames + k]
                           = RenderFinalState(config, task_data)
                     /\ frames[hold_frames + scale_frames + k] = final_image
               /\ \A k \in 1..Len(frame_objects) :
                     /\ frame_objects[k] \notin {FirstImageObject, FinalImageObject}
                     /\ \A j \in 1..Len(frame_objects) :
                           j # k => frame_objects[j] # frame_objects[k])
    /\ [][anim_pc = "animate"
            => first_image' = first_image /\ final_image' = final_image]_vars

C11_Witness ==
    /\ anim_pc = "done"
    /\ hold_frames = 2
    /\ Len(frame_objects) = 2 * hold_frames + scale_frames
    /\ frames[1] = first_image
    /\ frames[2] = first_image
    /\ frames[Len(frames)] = final_image
    /\ frames[Len(frames) - 1] = final_image
    /\ first_image # final_image
    /\ frame_objects[1] # frame_objects[2]

\* the answer position's size limit
AnswerLimit ==
    GetMaxShapeSizeForPosition(config, AnswerPosition[1], AnswerPosition[2])

\* C12 as stated: target_size is min(round(shape_size * scale_factor),
\* max_size_for_position(answer_x, answer_y)), the product rounded to the
\* nearest integer.
C12_TargetRounded ==
    anim_pc = "done"
      => morph_target
           = Min2(RoundMul(config.shape_size, task_data.scale_factor), AnswerLimit)

\* C12 amended: target_size is min(t, max_size_for_position(answer_x,
\* answer_y)) where t is shape_size * scale_factor truncated toward zero
\* (t <= product < t + 1); nothing bounds it from below.
C12_TargetTruncated ==
    anim_pc = "done"
      => \E t \in 0..(3 * config.shape_size) :
            /\ t * 100 <= config.shape_size * task_data.scale_factor
            /\ config.shape_size * task_data.scale_factor < (t + 1) * 100
            /\ morph_target = IF t <= AnswerLimit THEN t ELSE AnswerLimit

C12_Witness ==
    /\ anim_pc = "done"
    /\ config.shape_size = 33
    /\ task_data.scale_factor = 35
    /\ morph_target = 11
    /\ morph_target < AnswerLimit
    /\ morph_target < 2 * min_radius
    /\ RoundMul(config.shape_size, task_data.scale_factor) = 12

\* C13 as stated: morph frame i of s is drawn at round(original_size +
\* (target_size - original_size) * i/(s - 1)), the nearest integer, and at
\* target_size when s is 1.
C13_InterpolationRounded ==
    anim_pc = "done"
      => \A k \in 1..scale_frames :
            /\ morph_sizes[k] = CurrentSize_Nearest(config.shape_size, morph_target,
                                                    k - 1, scale_frames)
            /\ ShowsAnswerAt(frames[hold_frames + k],
                             CurrentSize_Nearest(config.shape_size, morph_target,
                                                 k - 1, scale_frames))

\* C13 amended: morph frame i of s is drawn at original_size + (target_size -
\* original_size) * i/(s - 1) truncated toward zero (m <= value < m + 1), and
\* at target_size when s is 1.
C13_InterpolationTruncated ==
    anim_pc = "done"
      => \A k \in 1..scale_frames :
            LET m == morph_sizes[k]
                d == scale_frames - 1
                v == config.shape_size * d + (morph_target - config.shape_size) * (k - 1)
            IN  /\ ShowsAnswerAt(frames[hold_frames + k], m)
                /\ IF scale_frames = 1 THEN m = morph_target
                   ELSE m * d <= v /\ v < (m + 1) * d

C13_Witness ==
    /\ anim_pc = "done"
    /\ config = DefaultConfig
    /\ task_data.scale_factor = 35
    /\ scale_frames = 4
    /\ morph_sizes = <<80, 62, 45, 28>>
    /\ CurrentSize_Nearest(80, 28, 1, 4) = 63

----------------------------------------------------------------------------
(* Properties of the shape renderer                                        *)

\* the shape name that reaches _draw_base_shape for an identifier
BaseShapeOf(shape) ==
    IF shape \in DOMAIN RoundedBase THEN RoundedBase[shape] ELSE shape

\* C15: a shape string naming none of the 20 shapes makes the renderer
\* signal an error: the call does not return normally with nothing drawn.
C15_MalformedShapeFails ==
    (/\ geom_pc = "drawn_plain"
     /\ BaseShapeOf(draw_call.shape) \notin Range(BaseShapes))
      => draw_call.outcome # "returned"

----------------------------------------------------------------------------
(* Properties of the video collaborator                                    *)

\* C16: encoding an empty frame list raises before anything is created (no
\* writer, no directory, no file); a list of one or more frames is accepted,
\* every frame is written and the output path is returned.
C16_EmptyFramesRejected ==
    encoder.called
      => IF Len(encoder.frame_sizes) = 0
         THEN /\ encoder.raised = "ValueError"
              /\ pair_raised = "ValueError"
              /\ ~encoder.writer_opened
              /\ encoder.created = {}
              /\ encoder.written = <<>>
              /\ encoder.result = NoPath
         ELSE /\ encoder.raised = "none"
              /\ pair_raised = "none"
              /\ encoder.result = encoder.output_path
              /\ Len(encoder.written) = Len(encoder.frame_sizes)
              /\ encoder.released

C16_Witness ==
    /\ pair_pc = "encoded"
    /\ encoder.called
    /\ encoder.frame_sizes = <<>>
    /\ encoder.raised = "ValueError"
    /\ encoder.created = {}

----------------------------------------------------------------------------
(* Properties of task assembly                                             *)

\* exceptions of the collaborator set-up: the probe, the constructor call
\* and VideoGenerator.__init__
CollaboratorErrors == {"AttributeError", "TypeError", "ImportError"}

\* C14: with the video collaborator unavailable, whether or not videos are
\* enabled, the constructor returns, no frames are handed to the encoder and
\* every generate_task_pair call returns a TaskPair whose ground_truth_video
\* is None.
C14_GracefulDegradation ==
    ~cv2_available
      => /\ pair_pc # "no_generator"
         /\ pair_raised \notin CollaboratorErrors
         /\ ~encoder.called
         /\ pair_pc # "raised"
         /\ pair_pc = "returned"
              => /\ "ground_truth_video" \in DOMAIN task_pair
                 /\ task_pair.ground_truth_video = NoPath

\* position of a step in the order the claim gives
StepRank(step) ==
    CASE step = "draw_combination" -> 1
      [] step = "build_task_data" -> 2
      [] step = "render_initial" -> 3
      [] step = "render_final" -> 4
      [] step = "animate" -> 5
      [] step = "encode" -> 6
      [] step = "prompt" -> 7
      [] step = "assemble" -> 8

OptionalSteps == {"animate", "encode"}

\* C19: the steps of a generate_task_pair call happen in the order draw
\* combination (random.sample, then random.choice), build task data, render
\* initial, render final, optional animation and encoding, prompt selection
\* (random.choice), assembly, none of them skipped except the optional ones;
\* the allocator's random calls come before the prompt's and the rendering
\* and video steps make no random call.
C19_AssemblyOrder ==
    /\ [](/\ \A i, j \in 1..Len(steps) :
                i < j => StepRank(steps[i]) < StepRank(steps[j])
          /\ \A i \in 1..Len(steps) :
                \A r \in 1..(StepRank(steps[i]) - 1) :
                   (\A o \in OptionalSteps : StepRank(o) # r)
                     => \E j \in 1..(i - 1) : StepRank(steps[j]) = r
          /\ \A i \in 1..Len(random_calls) :
                /\ random_calls[i].step = (IF i = 1 THEN "task_data" ELSE "prompt")
                /\ random_calls[i].times >= 1
                /\ random_calls[i].calls
                     = IF i = 1
                       THEN <<RandomCall("random.sample", "base_shapes"),
                              RandomCall("random.choice", "scale_factors")>>
                       ELSE <<RandomCall("random.choice", "prompts")>>
          /\ Len(random_calls) <= 2
          /\ Len(random_calls) = 2 <=> \E i \in 1..Len(steps) : steps[i] = "prompt"
          /\ Len(steps) > 0 => Len(random_calls) >= 1)
    /\ [][(pair_pc \in {"render_initial", "render_final", "video"})
            => random_calls' = random_calls]_vars

C19_Witness ==
    /\ pair_pc = "raised"
    /\ calls = 2
    /\ attempts = 2
    /\ steps = <<"draw_combination", "build_task_data", "render_initial",
                 "render_final", "prompt", "assemble">>
    /\ Len(random_calls) = 2
    /\ random_calls[1].times = 2
    /\ first_image # <<>>
    /\ final_image # first_image
    /\ prompt = "Complete the analogy"

----------------------------------------------------------------------------
(* Properties of the regular polygons and of the rounded dispatch          *)

\* the polygon with n vertices at radius half_size around the position,
\* vertex i (from 0) at i * 360 / n + offset degrees
VertexFan(pos, half_size, n, offset) ==
    [i \in 1..n |->
        <<U(pos[1]) + half_size * 1000 * Cos1000[((i - 1) * (360 \div n) + offset) % 360],
          U(pos[2]) + half_size * 1000 * Sin1000[((i - 1) * (360 \div n) + offset) % 360]>>]

\* a plain draw of the shape has put exactly one polygon with this vertex fan
\* on the canvas
DrawnAsFan(shape, n, offset) ==
    (geom_pc = "drawn_plain" /\ draw_call.shape = shape)
      => /\ Len(canvas) = 1
         /\ canvas[1].prim = "polygon"
         /\ canvas[1].pts = VertexFan(position, draw_call.size \div 2, n, offset)

BoxWidth(op) == (op.pts[2][1] - op.pts[1][1]) \div 1000000

\* C22: for an identifier "rounded_<base>" the prefix is stripped; base
\* square and base triangle are drawn by the dedicated rounded rule with
\* corner radius size // 8, and every other base shape is drawn by exactly the
\* operations of the unrounded _draw_base_shape at the same centre and size.
C22_RoundedDispatch ==
    \A base \in Range(BaseShapes) :
        (geom_pc = "drawn_plain" /\ draw_call.shape = "rounded_" \o base)
          => LET x == position[1]
                 y == position[2]
                 size == draw_call.size
             IN  CASE base = "square" ->
                        /\ canvas = DrawRoundedRectangle(
                                        x - size \div 2, y - size \div 2,
                                        x + size \div 2, y + size \div 2, size \div 8)
                        /\ BoxWidth(canvas[3]) = 2 * (size \div 8)
                        /\ canvas # DrawBaseShape(base, x, y, size)
                   [] base = "triangle" ->
                        /\ Len(canvas) = 4
                        /\ canvas[1].prim = "polygon"
                        /\ canvas[1].pts = DrawBaseShape(base, x, y, size)[1].pts
                        /\ \A k \in 2..4 :
                              /\ canvas[k].prim = "ellipse"
                              /\ BoxWidth(canvas[k]) = 2 * (size \div 8)
                        /\ canvas # DrawBaseShape(base, x, y, size)
                   [] OTHER ->
                        /\ canvas = DrawBaseShape(base, x, y, size)
                        /\ canvas # <<>>

C22_Witness ==
    /\ geom_pc = "drawn_plain"
    /\ config = DefaultConfig
    /\ draw_call.shape = "rounded_star"
    /\ canvas = DrawBaseShape("star", position[1], position[2], 80)
    /\ Len(canvas) = 5

----------------------------------------------------------------------------
(* Properties of the rendered analogy                                      *)

\* the image shows the full layout with B drawn at half-size half_b and D at
\* half-size half_d (a shape is drawn from size // 2)
ShowsLayout(image, half_b, half_d) ==
    LET positions == LayoutPositions(config)
    IN  image = DrawShapeAtPosition(task_data.shape_a, positions.A, config.shape_size)
                \o DrawArrow(config, positions.arrow1)
                \o DrawBaseShape(task_data.shape_b, positions.B[1], positions.B[2],
                                 2 * half_b)
                \o DrawShapeAtPosition(task_data.shape_c, positions.C, config.shape_size)
                \o DrawArrow(config, positions.arrow2)
                \o DrawBaseShape(task_data.shape_d, positions.D[1], positions.D[2],
                                 2 * half_d)

\* half-sizes a shape of the layout can be drawn at
HalfSizes == 0..(2 * config.shape_size)

\* C23: in the final image B (example row) and D (answer row) are drawn at
\* the same size, whatever the configuration and the scale factor.
C23_AnalogyConsistency ==
    anim_pc = "animate"
      => \E half \in HalfSizes : ShowsLayout(final_image, half, half)

\* C24: on the default configuration B and D are drawn strictly larger than
\* A and C when the task description says "larger" and strictly smaller when
\* it says "smaller".
C24_DirectionVisible ==
    (anim_pc = "animate" /\ config = DefaultConfig)
      => \E half_b, half_d \in HalfSizes :
            /\ ShowsLayout(final_image, half_b, half_d)
            /\ task_data.description[3] = "larger"
                  => /\ half_b > config.shape_size \div 2
                     /\ half_d > config.shape_size \div 2
            /\ task_data.description[3] = "smaller"
                  => /\ half_b < config.shape_size \div 2
                     /\ half_d < config.shape_size \div 2

----------------------------------------------------------------------------
(* Properties of the morph                                                 *)

\* C25: the last morph frame draws the same layout as the final static
\* image: the answer shape is drawn at the size D has in _render_final_state
\* and every draw operation coincides, for every scale_frames >= 1.
C25_EndsOnAnswer ==
    anim_pc = "done"
      => /\ frames[hold_frames + scale_frames] = final_image
         /\ morph_sizes[scale_frames]
               = TransformedSize(config, AnswerPosition[1], AnswerPosition[2],
                                 config.shape_size, task_data, "D")
         /\ ShowsAnswerAt(frames[hold_frames + scale_frames],
                          morph_sizes[scale_frames])

C25_Witness ==
    /\ anim_pc = "done"
    /\ config = DefaultConfig
    /\ task_data.scale_factor = 150
    /\ hold_frames = 2
    /\ scale_frames = 4
    /\ frames[6] = final_image
    /\ frames[7] = final_image
    /\ frames[5] # final_image
    /\ morph_sizes[4] = 60

\* C26: over the morph frames of an animation of two or more frames the
\* answer sizes are monotone (non-decreasing when target_size >=
\* original_size, non-increasing otherwise) and lie between original_size and
\* target_size inclusive; when original_size is within the bound of the
\* answer position, so is every morph size.
C26_MonotoneMorph ==
    (anim_pc = "done" /\ scale_frames >= 2)
      => LET original_size == config.shape_size
             target_size == morph_target
         IN  /\ \A k \in 1..scale_frames :
                   /\ ShowsAnswerAt(frames[hold_frames + k], morph_sizes[k])
                   /\ Min2(original_size, target_size) <= morph_sizes[k]
                   /\ morph_sizes[k] <= Max2(original_size, target_size)
             /\ \A k \in 1..(scale_frames - 1) :
                   IF target_size >= original_size
                   THEN morph_sizes[k] <= morph_sizes[k + 1]
                   ELSE morph_sizes[k] >= morph_sizes[k + 1]
             /\ original_size <= AnswerLimit
                   => \A k \in 1..scale_frames : morph_sizes[k] <= AnswerLimit

C26_Witness ==
    /\ anim_pc = "done"
    /\ config.shape_size = 30
    /\ config.shape_size <= AnswerLimit
    /\ task_data.scale_factor = 220
    /\ scale_frames = 4
    /\ morph_sizes = <<30, 33, 36, 40>>
    /\ morph_target = AnswerLimit

====
